---- MODULE Spec2Model ----
(***************************************************************************)
(* A model of java/builder.go: the classpath renderers, the functions that *)
(* declare the javac, errorprone, combineJar and dx build statements, and  *)
(* the commands of those rules as the build engine runs them.              *)
(*                                                                         *)
(* Go strings are TLA+ strings; a Go slice is a record                     *)
(* [isNil, elems] so that a nil slice and an empty one differ; a           *)
(* android.Path is the string its String() method returns.                 *)
(***************************************************************************)
EXTENDS Naturals, Sequences, FiniteSets, TLC

VARIABLES
    device,         \* ctx.Device() of the module being built
    ErrorProneJar,  \* config.ErrorProneJar
    flags,          \* the module's javaBuilderFlags
    props,          \* the module's srcFiles, srcJars and extra deps
    call,           \* the function last called, with its arguments
    ret,            \* how that call ended: returned (with a value) or panicked
    builds,         \* the ModuleBuildParams handed to ctx.ModuleBuild, in order
    errs,           \* the errors reported through ctx.ModuleErrorf, in order
    phase,          \* "analysis" (rules are declared) or "execution" (commands run)
    pc,             \* per declared build: how many steps of its command have run
    fs              \* the file tree: path |-> whether it exists, and its entries

vars == <<device, ErrorProneJar, flags, props, call, ret, builds, errs, phase, pc, fs>>

-----------------------------------------------------------------------------
(* Bounds of the model. *)

\* the longest classpath, source-path and archive list
MaxLen == 2
\* the most calls of the declaring functions per module
MaxBuilds == 2

-----------------------------------------------------------------------------
(* Go values. *)

SeqsUpTo(S, n) == UNION {[1..k -> S] : k \in 0..n}

\* a nil slice (var deps android.Paths)
NilSlice == [isNil |-> TRUE, elems |-> <<>>]
\* a non-nil slice holding s
MkSlice(s) == [isNil |-> FALSE, elems |-> s]
\* every slice over S of length at most n, nil included
Slices(S, n) == {NilSlice} \cup {MkSlice(s) : s \in SeqsUpTo(S, n)}
\* len(x)
len(x) == Len(x.elems)
\* append(s, t...): appending nothing to nil leaves nil
AppendSlice(s, t) ==
    [isNil |-> s.isNil /\ Len(t.elems) = 0, elems |-> s.elems \o t.elems]
\* append(s, e)
AppendOne(s, e) == [isNil |-> FALSE, elems |-> Append(s.elems, e)]

\* a call that returned v / a call that panicked with message m
Returned(v) == [ok |-> TRUE, val |-> v]
Panicked(m) == [ok |-> FALSE, val |-> m]

\* strings.Join(list, sep)
RECURSIVE Join(_, _)
Join(list, sep) ==
    IF Len(list) = 0 THEN ""
    ELSE IF Len(list) = 1 THEN list[1]
    ELSE list[1] \o sep \o Join(Tail(list), sep)

\* strings.HasPrefix(s, prefix)
HasPrefix(s, prefix) == Len(s) >= Len(prefix) /\ SubSeq(s, 1, Len(prefix)) = prefix

\* strings.HasSuffix(s, suffix)
HasSuffix(s, suffix) ==
    /\ Len(s) >= Len(suffix)
    /\ SubSeq(s, Len(s) - Len(suffix) + 1, Len(s)) = suffix

\* strings.TrimSuffix(s, suffix)
TrimSuffix(s, suffix) ==
    IF HasSuffix(s, suffix) THEN SubSeq(s, 1, Len(s) - Len(suffix)) ELSE s

-----------------------------------------------------------------------------
(* type classpath []android.Path and its renderers.  Every call in the     *)
(* file takes the address of a variable or of a struct field, so a         *)
(* receiver is never the nil pointer; the slice it points to may be nil.   *)

\* (x *classpath) Strings(): a fresh []string of the entries' String()
Strings(x) == MkSlice([i \in 1..len(x) |-> x.elems[i]])

\* a JavaSourcepath that omits the flag of an empty list, as JavaClasspath does
JavaSourcepathOmitting(x) ==
    IF len(x) > 0
    THEN "-sourcepath " \o Join(Strings(x).elems, ":")
    ELSE ""

JavaSourcepath(x) ==
    IF len(x) > 0
    THEN "-sourcepath " \o Join(Strings(x).elems, ":")
    ELSE "-sourcepath \"\""

\* a JavaClasspath that joins the entries last to first
JavaClasspathReversed(x) ==
    IF len(x) > 0
    THEN "-classpath " \o Join([i \in 1..len(x) |-> x.elems[len(x) + 1 - i]], ":")
    ELSE ""

JavaClasspath(x) ==
    IF len(x) > 0
    THEN "-classpath " \o Join(Strings(x).elems, ":")
    ELSE ""

\* a JavaBootClasspath that always writes the flag, whatever forceEmpty is
JavaBootClasspathAlways(x, forceEmpty) ==
    IF len(x) > 0
    THEN "-bootclasspath " \o Join(Strings(x).elems, ":")
    ELSE "-bootclasspath \"\""

JavaBootClasspath(x, forceEmpty) ==
    IF len(x) > 0
    THEN "-bootclasspath " \o Join(Strings(x).elems, ":")
    ELSE IF forceEmpty THEN "-bootclasspath \"\""
    ELSE ""

\* a JavaSystemModules that takes the first of several entries
JavaSystemModulesFirst(x, forceEmpty) ==
    IF len(x) >= 1
    THEN Returned("--system=" \o TrimSuffix(x.elems[1], "lib/modules"))
    ELSE IF forceEmpty THEN Returned("--system=none")
    ELSE Returned("")

\* a JavaSystemModules that panics unless there is exactly one entry
JavaSystemModulesStrict(x, forceEmpty) ==
    IF len(x) # 1 THEN Panicked("more than one system module")
    ELSE Returned("--system=" \o TrimSuffix(x.elems[1], "lib/modules"))

JavaSystemModules(x, forceEmpty) ==
    IF len(x) > 1 THEN Panicked("more than one system module")
    ELSE IF len(x) = 1
    THEN Returned("--system=" \o TrimSuffix(x.elems[1], "lib/modules"))
    ELSE IF forceEmpty THEN Returned("--system=none")
    ELSE Returned("")

DesugarBootClasspath(x) ==
    IF x.isNil THEN NilSlice
    ELSE MkSlice([i \in 1..len(x) |-> "--bootclasspath_entry " \o x.elems[i]])

DesugarClasspath(x) ==
    IF x.isNil THEN NilSlice
    ELSE MkSlice([i \in 1..len(x) |-> "--classpath_entry " \o x.elems[i]])

-----------------------------------------------------------------------------
(* The values the declaring functions are called with. *)

BootPaths == {"core.jar"}
SysPaths == {"jdk9/lib/modules", "sysmods"}
UserPaths == {"a.jar"}
SrcJarPaths == {"gen.srcjar"}
JarPaths == {"A.jar", "B.jar"}
\* the output file each function is given
JavacOutFiles == {"out/m/classes-compiled.jar"}
ErrorProneOutFiles == {"out/m/classes-errorprone.list"}
CombinedOutFiles == {"out/m/classes.jar"}
DexOutFiles == {"out/m/dex.jar"}
OutFiles == JavacOutFiles \cup ErrorProneOutFiles \cup CombinedOutFiles \cup DexOutFiles
SrcFileLists == {MkSlice(<<"A.java", "B.java">>)}
RenderPaths == {"a.jar", "b.jar", "jdk9/lib/modules"}
DepLists == {NilSlice, MkSlice(<<"dep.jar">>)}
JavaVersions == {"1.8", "1.9"}
\* android.OptionalPath: the zero value, or a path
NoManifest == [valid |-> FALSE, path |-> ""]
Manifests == {NoManifest, [valid |-> TRUE, path |-> "MANIFEST.MF"]}

\* type javaBuilderFlags, the fields the modelled functions read
FlagSets ==
    [javacFlags : {"-Xlint"}, dxFlags : {"--min-sdk"},
     bootClasspath : Slices(BootPaths, MaxLen),
     classpath : Slices(UserPaths, MaxLen),
     systemModules : Slices(SysPaths, MaxLen),
     javaVersion : JavaVersions]

\* what a module compiles: the arguments its calls pass besides the flags
PropSets ==
    [srcFiles : SrcFileLists, srcJars : Slices(SrcJarPaths, MaxLen), deps : DepLists]

\* the module's output root, and android.PathForModuleOut(ctx, name).String()
ModuleOutDir == "out/m"
PathForModuleOut(name) == ModuleOutDir \o "/" \o name

-----------------------------------------------------------------------------
(* The declaring functions.  Each is an operator giving the call's effect: *)
(* the errors it reports, the builds it hands to ctx.ModuleBuild and how   *)
(* it ends.                                                                *)

Effect(e, b, r) == [errs |-> e, builds |-> b, ret |-> r]

\* transformJavaToClasses, lines 174-181: the bootClasspath argument
BootClasspathArg(fl, dev) ==
    IF fl.javaVersion = "1.9"
    THEN JavaSystemModules(fl.systemModules, dev)
    ELSE Returned(JavaBootClasspath(fl.bootClasspath, dev))

\* implicit dependencies that take the boot classpath and the system modules
ImplicitDepsBoth(deps, srcJars, fl) ==
    AppendSlice(AppendSlice(AppendSlice(AppendSlice(deps, srcJars), fl.systemModules),
                            fl.bootClasspath), fl.classpath)

\* transformJavaToClasses, lines 172-183: the implicit dependencies
ImplicitDeps(deps, srcJars, fl) ==
    LET d1 == AppendSlice(deps, srcJars)
        d2 == IF fl.javaVersion = "1.9"
              THEN AppendSlice(d1, fl.systemModules)
              ELSE AppendSlice(d1, fl.bootClasspath)
    IN  AppendSlice(d2, fl.classpath)

\* an intermediate directory named without the suffix
IntermediateDirUnsuffixed(name, intermediatesSuffix) ==
    PathForModuleOut(name)

\* transformJavaToClasses, lines 196-197: an intermediate directory
IntermediateDir(name, intermediatesSuffix) ==
    PathForModuleOut(name \o intermediatesSuffix)

transformJavaToClasses(dev, outputFile, srcFiles, srcJars, fl, deps, intermediatesSuffix, desc, rule) ==
    LET bootClasspath == BootClasspathArg(fl, dev)
    IN  IF ~bootClasspath.ok
        THEN Effect(<<>>, <<>>, bootClasspath)
        ELSE Effect(<<>>,
                    << [Rule |-> rule,
                        Description |-> desc,
                        Output |-> outputFile,
                        Inputs |-> srcFiles,
                        Implicits |-> ImplicitDeps(deps, srcJars, fl),
                        Args |-> [javacFlags |-> fl.javacFlags,
                                  bootClasspath |-> bootClasspath.val,
                                  sourcepath |-> JavaSourcepath(srcJars),
                                  classpath |-> JavaClasspath(fl.classpath),
                                  outDir |-> IntermediateDir("classes", intermediatesSuffix),
                                  annoDir |-> IntermediateDir("anno", intermediatesSuffix),
                                  javaVersion |-> fl.javaVersion]] >>,
                    Returned(""))

TransformJavaToClassesEffect(dev, outputFile, srcFiles, srcJars, fl, deps) ==
    transformJavaToClasses(dev, outputFile, srcFiles, srcJars, fl, deps,
                           "", "javac", "javac")

ErrorProneMissing == "cannot build with Error Prone, missing external/error_prone?"

\* a RunErrorProne that returns once it has reported the missing jar
RunErrorProneReturning(jar, dev, outputFile, srcFiles, srcJars, fl) ==
    IF jar = ""
    THEN Effect(<<ErrorProneMissing>>, <<>>, Returned(""))
    ELSE transformJavaToClasses(dev, outputFile, srcFiles, srcJars, fl, NilSlice, "-errorprone", "errorprone", "errorprone")

RunErrorProneEffect(jar, dev, outputFile, srcFiles, srcJars, fl) ==
    LET reported == IF jar = "" THEN <<ErrorProneMissing>> ELSE <<>>
        e == transformJavaToClasses(dev, outputFile, srcFiles, srcJars, fl, NilSlice,
                                    "-errorprone", "errorprone", "errorprone")
    IN  Effect(reported \o e.errs, e.builds, e.ret)

\* a TransformJarsToJar that declares the archives last to first
TransformJarsToJarReversed(outputFile, jars, manifest, stripDirs) ==
    Effect(<<>>,
           << [Rule |-> "combineJar",
               Description |-> "combine jars",
               Output |-> outputFile,
               Inputs |-> [jars EXCEPT !.elems = [i \in 1..len(jars) |-> jars.elems[len(jars) + 1 - i]]],
               Implicits |-> IF manifest.valid THEN MkSlice(<<manifest.path>>) ELSE NilSlice,
               Args |-> [jarArgs |-> Join((IF manifest.valid THEN <<"-m " \o manifest.path>> ELSE <<>>)
                                          \o (IF stripDirs THEN <<"-D">> ELSE <<>>), " ")]] >>,
           Returned(""))

TransformJarsToJarEffect(outputFile, jars, manifest, stripDirs) ==
    LET a1 == IF manifest.valid
              THEN AppendOne(NilSlice, "-m " \o manifest.path) ELSE NilSlice
        deps == IF manifest.valid
                THEN AppendOne(NilSlice, manifest.path) ELSE NilSlice
        jarArgs == IF stripDirs THEN AppendOne(a1, "-D") ELSE a1
    IN  Effect(<<>>,
               << [Rule |-> "combineJar",
                   Description |-> "combine jars",
                   Output |-> outputFile,
                   Inputs |-> jars,
                   Implicits |-> deps,
                   Args |-> [jarArgs |-> Join(jarArgs.elems, " ")]] >>,
               Returned(""))

TransformClassesJarToDexJarEffect(outputFile, classesJar, fl) ==
    LET outDir == PathForModuleOut("dex")
    IN  Effect(<<>>,
               << [Rule |-> "dx",
                   Description |-> "dx",
                   Output |-> outputFile,
                   Inputs |-> MkSlice(<<classesJar>>),
                   Implicits |-> NilSlice,
                   Args |-> [dxFlags |-> fl.dxFlags, outDir |-> outDir]] >>,
               Returned(""))

-----------------------------------------------------------------------------
(* The analysis phase: a module calls the declaring functions. *)

NoCall == [fn |-> "none"]

\* the state a call leaves: ctx.ModuleErrorf appends to the errors and
\* returns, ctx.ModuleBuild appends to the builds, a panic ends the analysis
Declare(c, e) ==
    /\ phase = "analysis"
    /\ ret.ok
    /\ Len(builds) < MaxBuilds
    /\ call' = c
    /\ ret' = e.ret
    /\ errs' = errs \o e.errs
    /\ builds' = builds \o e.builds
    /\ pc' = pc \o [i \in 1..Len(e.builds) |-> 0]
    /\ UNCHANGED <<device, ErrorProneJar, flags, props, phase, fs>>

TransformJavaToClasses ==
    \E outputFile \in JavacOutFiles :
        Declare([fn |-> "TransformJavaToClasses", outputFile |-> outputFile],
                TransformJavaToClassesEffect(device, outputFile, props.srcFiles,
                                             props.srcJars, flags, props.deps))

RunErrorProne ==
    \E outputFile \in ErrorProneOutFiles :
        Declare([fn |-> "RunErrorProne", outputFile |-> outputFile],
                RunErrorProneEffect(ErrorProneJar, device, outputFile, props.srcFiles,
                                    props.srcJars, flags))

TransformJarsToJar ==
    \E outputFile \in CombinedOutFiles, jars \in Slices(JarPaths, MaxLen),
       manifest \in Manifests, stripDirs \in BOOLEAN :
        Declare([fn |-> "TransformJarsToJar", outputFile |-> outputFile, jars |-> jars,
                 manifest |-> manifest, stripDirs |-> stripDirs],
                TransformJarsToJarEffect(outputFile, jars, manifest, stripDirs))

TransformClassesJarToDexJar ==
    \E outputFile \in DexOutFiles, classesJar \in JarPaths :
        Declare([fn |-> "TransformClassesJarToDexJar", outputFile |-> outputFile,
                 classesJar |-> classesJar],
                TransformClassesJarToDexJarEffect(outputFile, classesJar, flags))

\* a renderer called on &flags.classpath
Render(fn, forceEmpty, r) ==
    /\ phase = "analysis"
    /\ call' = [fn |-> fn, x |-> flags.classpath, forceEmpty |-> forceEmpty]
    /\ ret' = r
    /\ UNCHANGED <<device, ErrorProneJar, flags, props, builds, errs, phase, pc, fs>>

CallJavaSourcepath == Render("JavaSourcepath", FALSE, Returned(JavaSourcepath(flags.classpath)))
CallJavaClasspath == Render("JavaClasspath", FALSE, Returned(JavaClasspath(flags.classpath)))
CallJavaBootClasspath ==
    \E forceEmpty \in BOOLEAN :
        Render("JavaBootClasspath", forceEmpty,
               Returned(JavaBootClasspath(flags.classpath, forceEmpty)))
CallJavaSystemModules ==
    \E forceEmpty \in BOOLEAN :
        Render("JavaSystemModules", forceEmpty,
               JavaSystemModules(flags.classpath, forceEmpty))
CallDesugarBootClasspath ==
    Render("DesugarBootClasspath", FALSE, Returned(DesugarBootClasspath(flags.classpath)))
CallDesugarClasspath ==
    Render("DesugarClasspath", FALSE, Returned(DesugarClasspath(flags.classpath)))

-----------------------------------------------------------------------------
(* The execution phase: the engine runs the command of every declared      *)
(* build, one command of its && chain at a time, builds that do not depend *)
(* on each other in parallel.  A directory or an archive is the set of its *)
(* entries, an entry a [name, data] record.                                *)

Absent == [exists |-> FALSE, entries |-> {}]
Holding(es) == [exists |-> TRUE, entries |-> es]
Entry(n, d) == [name |-> n, data |-> d]

\* the intermediate directories of the module, and the archive dx leaves in one
Dirs == {PathForModuleOut(n) : n \in {"classes", "anno", "classes-errorprone", "anno-errorprone", "dex"}}
DexJarOf(outDir) == outDir \o "/classes.dex.jar"
TreePaths == Dirs \cup {DexJarOf(PathForModuleOut("dex"))} \cup OutFiles

\* the prebuilt archives a module dexes
JarContent(jar) ==
    IF jar = "A.jar"
    THEN {Entry("A.class", "class A"), Entry("res.txt", "resource")}
    ELSE {Entry("B.class", "class B"), Entry("B$1.class", "class B$1")}

\* writing entries es into a directory replaces the entries of the same names
WriteInto(dir, es) ==
    Holding({e \in dir.entries : \A w \in es : w.name # e.name} \cup es)

\* rm -rf dirs: the directories and all beneath them
RemoveAll(tree, dirs) ==
    [p \in DOMAIN tree |->
        IF \E d \in dirs : p = d \/ HasPrefix(p, d \o "/") THEN Absent ELSE tree[p]]

\* mkdir -p dirs: an existing directory keeps its entries
MkdirAll(tree, dirs) ==
    [p \in DOMAIN tree |-> IF p \in dirs /\ ~tree[p].exists THEN Holding({}) ELSE tree[p]]

\* the compiler: a class per source under -d, the processors' sources under -s
Compiler(tree, b) ==
    LET classes == {Entry(TrimSuffix(b.Inputs.elems[i], ".java") \o ".class",
                          "class of " \o b.Inputs.elems[i]) : i \in 1..len(b.Inputs)}
    IN  [tree EXCEPT ![b.Args.outDir] = WriteInto(@, classes),
                     ![b.Args.annoDir] = WriteInto(@, {Entry("Generated.java", "generated")})]

\* dx --dex --output=outDir: the dex of the input's classes
DxTool(tree, b) ==
    [tree EXCEPT ![b.Args.outDir] =
        WriteInto(@, {Entry("classes.dex", "dex of " \o b.Inputs.elems[1])})]

\* soong_zip -o out -C dir -D dir: an archive of the files in dir
SoongZip(tree, out, dir) == [tree EXCEPT ![out] = Holding(tree[dir].entries)]

\* merge_zips -D -stripFile "*.class" out first second: the entries of both,
\* the first archive's winning, less those named *.class
MergeZips(tree, out, first, second) ==
    LET kept == {e \in second : \A f \in first : f.name # e.name}
    IN  [tree EXCEPT ![out] =
            Holding({e \in first \cup kept : ~HasSuffix(e.name, ".class")})]

\* a dx command that does not remove the directory first
DxCommandKeeping == <<"mkdir", "dx", "soong_zip", "merge_zips">>

\* the commands of the rules, as the steps of their && chains
JavacCommand == <<"rm", "mkdir", "compile", "soong_zip">>
ErrorproneCommand == <<"rm", "mkdir", "compile", "soong_zip">>
DxCommand == <<"rm", "mkdir", "dx", "soong_zip", "merge_zips">>
RuleCommand(rule) ==
    CASE rule = "javac" -> JavacCommand
      [] rule = "errorprone" -> ErrorproneCommand
      [] rule = "dx" -> DxCommand

\* the directories a command is given
BuildDirs(b) == IF b.Rule = "dx" THEN {b.Args.outDir} ELSE {b.Args.outDir, b.Args.annoDir}

\* one step of build b's command on the tree
RunStep(step, b, tree) ==
    CASE step = "rm" -> RemoveAll(tree, BuildDirs(b))
      [] step = "mkdir" -> MkdirAll(tree, BuildDirs(b))
      [] step = "compile" -> Compiler(tree, b)
      [] step = "dx" -> DxTool(tree, b)
      [] step = "soong_zip" ->
            IF b.Rule = "dx"
            THEN SoongZip(tree, DexJarOf(b.Args.outDir), b.Args.outDir)
            ELSE SoongZip(tree, b.Output, b.Args.outDir)
      [] step = "merge_zips" ->
            MergeZips(tree, b.Output, tree[DexJarOf(b.Args.outDir)].entries,
                      JarContent(b.Inputs.elems[1]))

\* the engine takes the declared builds once the analysis ended without an
\* error, and refuses two builds of one output
StartExecution ==
    /\ phase = "analysis"
    /\ ret.ok /\ errs = <<>>
    /\ builds # <<>>
    /\ \A i, j \in 1..Len(builds) : builds[i].Output = builds[j].Output => i = j
    /\ phase' = "execution"
    /\ UNCHANGED <<device, ErrorProneJar, flags, props, call, ret, builds, errs, pc, fs>>

Step(j) ==
    /\ phase = "execution"
    /\ pc[j] < Len(RuleCommand(builds[j].Rule))
    /\ fs' = RunStep(RuleCommand(builds[j].Rule)[pc[j] + 1], builds[j], fs)
    /\ pc' = [pc EXCEPT ![j] = @ + 1]
    /\ UNCHANGED <<device, ErrorProneJar, flags, props, call, ret, builds, errs, phase>>

-----------------------------------------------------------------------------
(* Specifications. *)

InitCommon ==
    /\ call = NoCall
    /\ ret = Returned("")
    /\ builds = <<>>
    /\ errs = <<>>
    /\ phase = "analysis"
    /\ pc = <<>>

\* a module with any flags, compiled with javac and with Error Prone
Init ==
    /\ InitCommon
    /\ device \in BOOLEAN
    /\ ErrorProneJar \in {"", "external/error_prone/error_prone.jar"}
    /\ flags \in FlagSets
    /\ props \in PropSets
    /\ fs = [p \in TreePaths |-> Absent]

Next == TransformJavaToClasses \/ RunErrorProne

Spec == Init /\ [][Next]_vars

\* a module that merges archives
InitMerge ==
    /\ InitCommon
    /\ device \in BOOLEAN
    /\ ErrorProneJar = ""
    /\ flags \in [javacFlags : {""}, dxFlags : {""}, bootClasspath : {NilSlice}, classpath : {NilSlice}, systemModules : {NilSlice}, javaVersion : {"1.8"}]
    /\ props \in [srcFiles : {NilSlice}, srcJars : {NilSlice}, deps : {NilSlice}]
    /\ fs = [p \in TreePaths |-> Absent]

NextMerge == TransformJarsToJar

SpecMerge == InitMerge /\ [][NextMerge]_vars

\* the renderers, called on every classpath
InitRender ==
    /\ InitCommon
    /\ device = TRUE
    /\ ErrorProneJar = ""
    /\ flags \in [javacFlags : {""}, dxFlags : {""}, bootClasspath : {NilSlice}, classpath : Slices(RenderPaths, MaxLen), systemModules : {NilSlice}, javaVersion : {"1.8"}]
    /\ props \in [srcFiles : {NilSlice}, srcJars : {NilSlice}, deps : {NilSlice}]
    /\ fs = [p \in TreePaths |-> Absent]

NextRender ==
    \/ CallJavaSourcepath
    \/ CallJavaClasspath
    \/ CallJavaBootClasspath
    \/ CallJavaSystemModules
    \/ CallDesugarBootClasspath
    \/ CallDesugarClasspath

SpecRender == InitRender /\ [][NextRender]_vars

\* the tree before the commands run: nothing yet, or what an earlier build
\* of the module left in every directory, stale dex files among it
StaleTrees ==
    {[p \in TreePaths |-> Absent]} \cup
    {[p \in TreePaths |->
        IF p = PathForModuleOut("dex") THEN Holding(es)
        ELSE IF p \in Dirs
        THEN Holding({Entry("Old.class", "class Old"), Entry("Generated.java", "old")})
        ELSE Absent] :
     es \in (SUBSET {Entry("classes.dex", "dex of old"),
                     Entry("classes2.dex", "dex of old")}) \ {{}}}

\* a module that is compiled and dexed, and the engine running its commands
InitExec ==
    /\ InitCommon
    /\ device \in BOOLEAN
    /\ ErrorProneJar = "external/error_prone/error_prone.jar"
    /\ flags \in [javacFlags : {""}, dxFlags : {""}, bootClasspath : {NilSlice}, classpath : {NilSlice}, systemModules : {NilSlice}, javaVersion : {"1.8"}]
    /\ props \in [srcFiles : SrcFileLists, srcJars : {NilSlice}, deps : {NilSlice}]
    /\ fs \in StaleTrees

NextExec ==
    \/ TransformJavaToClasses
    \/ RunErrorProne
    \/ TransformClassesJarToDexJar
    \/ StartExecution
    \/ \E j \in 1..Len(builds) : Step(j)

SpecExec == InitExec /\ [][NextExec]_vars

-----------------------------------------------------------------------------
(* The javac and errorprone rules: the arguments of the compiler, lines    *)
(* 43-45 and 57-59 of the command with the build's Args put in.            *)

CompilerArgs(b) ==
    b.Args.javacFlags \o " " \o b.Args.sourcepath \o " " \o b.Args.bootClasspath \o " "
        \o b.Args.classpath \o " -source " \o b.Args.javaVersion
        \o " -target " \o b.Args.javaVersion
        \o " -d " \o b.Args.outDir \o " -s " \o b.Args.annoDir \o " @" \o b.Output \o ".rsp"

-----------------------------------------------------------------------------
(* What the claims are stated with. *)

Contains(s, sub) == \E i \in 1..(Len(s) + 1) : SubSeq(s, i, i + Len(sub) - 1) = sub
Prefixes(s) == {SubSeq(s, 1, k) : k \in 0..Len(s)}
\* the entries of list in order with ":" between them, built left to right
ColonList(list) ==
    LET F[k \in 0..Len(list)] ==
            IF k = 0 THEN "" ELSE IF k = 1 THEN list[1] ELSE F[k - 1] \o ":" \o list[k]
    IN  F[Len(list)]
IsCompile(b) == b.Rule \in {"javac", "errorprone"}
CompileBuilds == {builds[i] : i \in {j \in 1..Len(builds) : IsCompile(builds[j])}}
Called(fn) == call.fn = fn
LastBuild == builds[Len(builds)]
CompileCalled == Called("TransformJavaToClasses") \/ Called("RunErrorProne")

C2_SystemModulesRendering ==
    (CompileCalled /\ flags.javaVersion = "1.9") =>
        LET n == len(flags.systemModules)
            p == flags.systemModules.elems[1]
            roots == {r \in Prefixes(p) : r \o "lib/modules" = p}
        IN  /\ n >= 2 => /\ ~ret.ok
                         /\ ret.val = "more than one system module"
                         /\ builds = <<>>
            /\ n <= 1 => ret.ok /\ Len(builds) > 0
            /\ \A b \in CompileBuilds :
                /\ (n = 0 /\ ~device) => b.Args.bootClasspath = ""
                /\ (n = 0 /\ device) => b.Args.bootClasspath = "--system=none"
                /\ n = 1 => IF roots = {}
                            THEN b.Args.bootClasspath = "--system=" \o p
                            ELSE \E r \in roots : b.Args.bootClasspath = "--system=" \o r

C2_Witness ==
    /\ Called("TransformJavaToClasses") /\ flags.javaVersion = "1.9"
    /\ len(flags.systemModules) = 2 /\ ~ret.ok /\ builds = <<>>

(* C3: a compile declaration of version "1.9" carries the system-module     *)
(* rendering as bootClasspath and the system modules, not the boot          *)
(* classpath, among its implicit dependencies; one of any other version     *)
(* carries the boot-classpath rendering and the boot classpath, not the     *)
(* system modules.                                                          *)
C3_BootOrSystemNeverBoth ==
    \A b \in CompileBuilds :
        LET deps == IF b.Rule = "javac" THEN props.deps.elems ELSE <<>>
            imp == b.Implicits.elems
            arg == b.Args.bootClasspath
        IN  IF flags.javaVersion = "1.9"
            THEN /\ arg = "" \/ HasPrefix(arg, "--system=")
                 /\ imp = deps \o props.srcJars.elems \o flags.systemModules.elems
                              \o flags.classpath.elems
                 /\ \A i \in 1..Len(imp) : imp[i] \notin BootPaths
            ELSE /\ arg = "" \/ HasPrefix(arg, "-bootclasspath ")
                 /\ len(flags.bootClasspath) > 0 =>
                        arg = "-bootclasspath " \o ColonList(flags.bootClasspath.elems)
                 /\ imp = deps \o props.srcJars.elems \o flags.bootClasspath.elems
                              \o flags.classpath.elems
                 /\ \A i \in 1..Len(imp) : imp[i] \notin SysPaths

C3_Witness ==
    /\ flags.javaVersion = "1.9" /\ len(flags.bootClasspath) > 0
    /\ len(flags.systemModules) = 1 /\ CompileBuilds # {}

\* scenario 1: two sources, nothing on any path, version "1.8"
Scenario1 ==
    /\ Called("TransformJavaToClasses") /\ ret.ok
    /\ len(props.srcFiles) = 2 /\ len(props.srcJars) = 0
    /\ len(flags.classpath) = 0 /\ len(flags.bootClasspath) = 0
    /\ flags.javaVersion = "1.8"

(* C4, as claimed: in scenario 1 the declared arguments are the explicit    *)
(* empty sourcepath, no classpath, a bootclasspath flag that is present,    *)
(* and version "1.8" for -source and -target.                               *)
C4_BootclasspathFlagPresent ==
    Scenario1 =>
        /\ LastBuild.Args.sourcepath = "-sourcepath \"\""
        /\ LastBuild.Args.classpath = ""
        /\ LastBuild.Args.bootClasspath # ""
        /\ LastBuild.Args.javaVersion = "1.8"
        /\ Contains(CompilerArgs(LastBuild), "-source 1.8 -target 1.8")

(* C4, amended: in scenario 1 the declared arguments are the explicit       *)
(* empty sourcepath, no classpath, version "1.8" for -source and -target,   *)
(* and as bootClasspath the explicit empty flag for a device module         *)
(* (ctx.Device() true) but the empty string for a host module.              *)
C4_BootclasspathFlagOnDeviceOnly ==
    Scenario1 =>
        /\ LastBuild.Rule = "javac"
        /\ LastBuild.Args.sourcepath = "-sourcepath \"\""
        /\ LastBuild.Args.classpath = ""
        /\ device => LastBuild.Args.bootClasspath = "-bootclasspath \"\""
        /\ ~device => LastBuild.Args.bootClasspath = ""
        /\ LastBuild.Args.javaVersion = "1.8"
        /\ Contains(CompilerArgs(LastBuild), "-source 1.8 -target 1.8")

C4_Witness == Scenario1 /\ ~device /\ LastBuild.Args.bootClasspath = ""

C8_MergeKeepsInputOrder ==
    Called("TransformJarsToJar") =>
        /\ ret.ok /\ Len(builds) > 0
        /\ LastBuild.Rule = "combineJar"
        /\ LastBuild.Output = call.outputFile
        /\ LastBuild.Inputs = call.jars
        /\ LastBuild.Implicits.elems =
               IF call.manifest.valid THEN <<call.manifest.path>> ELSE <<>>
        /\ LastBuild.Args.jarArgs =
               CASE call.manifest.valid /\ call.stripDirs -> "-m " \o call.manifest.path \o " -D"
                 [] call.manifest.valid /\ ~call.stripDirs -> "-m " \o call.manifest.path
                 [] ~call.manifest.valid /\ call.stripDirs -> "-D"
                 [] OTHER -> ""

C8_Witness ==
    /\ Called("TransformJarsToJar") /\ call.jars.elems = <<"B.jar", "A.jar">>
    /\ call.manifest.valid /\ LastBuild.Inputs.elems = <<"B.jar", "A.jar">>

(* C9: JavaSourcepath never returns the empty string: the explicit empty    *)
(* flag for an empty list, "-sourcepath " and the entries in order with     *)
(* ":" between them otherwise.                                              *)
C9_SourcepathNeverOmitted ==
    Called("JavaSourcepath") =>
        /\ ret.ok /\ ret.val # ""
        /\ len(flags.classpath) = 0 => ret.val = "-sourcepath \"\""
        /\ len(flags.classpath) > 0 =>
               ret.val = "-sourcepath " \o ColonList(flags.classpath.elems)

C9_Witness ==
    Called("JavaSourcepath") /\ len(flags.classpath) = 0 /\ ret.val = "-sourcepath \"\""

(* C10: JavaClasspath returns the empty string for an empty list and        *)
(* "-classpath " and the entries in order with ":" between them otherwise,  *)
(* and leaves the list as it was.                                           *)
C10_ClasspathJoinedInOrder ==
    Called("JavaClasspath") =>
        /\ ret.ok
        /\ len(flags.classpath) = 0 => ret.val = ""
        /\ len(flags.classpath) > 0 =>
               ret.val = "-classpath " \o ColonList(flags.classpath.elems)
        /\ flags.classpath = call.x

C10_Witness ==
    /\ Called("JavaClasspath") /\ flags.classpath.elems = <<"b.jar", "a.jar">>
    /\ ret.val = "-classpath b.jar:a.jar"

\* the dx builds of the module
DxBuilds == {j \in 1..Len(builds) : builds[j].Rule = "dx"}
\* what dexing and merging archive jar gives in a directory that was absent
CleanDexOutput(jar) ==
    {Entry("classes.dex", "dex of " \o jar)}
        \cup {e \in JarContent(jar) : ~HasSuffix(e.name, ".class")}

(* C6: the command of a module's dx build removes its directory, creates    *)
(* it, dexes into it, archives it and merges that archive with the input    *)
(* less its "*.class" entries, in this order; whatever the directory held   *)
(* before, the output is what a run on an absent directory gives.           *)
C6_DexOutputIgnoresStaleFiles ==
    \A j \in DxBuilds :
        DxBuilds = {j} =>
            LET b == builds[j]
                dir == fs[b.Args.outDir]
                dex == Entry("classes.dex", "dex of " \o b.Inputs.elems[1])
            IN  /\ pc[j] = 1 => ~dir.exists
                /\ pc[j] = 2 => dir = Holding({})
                /\ pc[j] = 3 => dir = Holding({dex})
                /\ pc[j] >= 4 => fs[DexJarOf(b.Args.outDir)] = Holding({dex})
                /\ pc[j] = 5 =>
                       fs[b.Output] = Holding(CleanDexOutput(b.Inputs.elems[1]))

C6_Witness ==
    \E j \in DxBuilds :
        /\ DxBuilds = {j} /\ pc[j] = 5
        /\ Entry("Old.class", "class Old") \in fs[PathForModuleOut("classes")].entries
        /\ fs[builds[j].Output] = Holding({Entry("classes.dex", "dex of A.jar"),
                                           Entry("res.txt", "resource")})

(* C7: the javac declaration and the errorprone declaration of one module   *)
(* name different outDir and annoDir, and no step of the command of one     *)
(* changes a directory the other names.                                     *)
C7_SuffixKeepsDirectoriesApart ==
    [][\A i, j \in 1..Len(builds) :
        (builds[i].Rule = "javac" /\ builds[j].Rule = "errorprone") =>
            /\ BuildDirs(builds[i]) \cap BuildDirs(builds[j]) = {}
            /\ pc'[i] # pc[i] => \A d \in BuildDirs(builds[j]) : fs'[d] = fs[d]
            /\ pc'[j] # pc[j] => \A d \in BuildDirs(builds[i]) : fs'[d] = fs[d]]_vars

C7_Witness ==
    \E i, j \in 1..Len(builds) :
        /\ builds[i].Rule = "javac" /\ builds[j].Rule = "errorprone"
        /\ pc[i] = 3 /\ pc[j] = 1
        /\ fs[builds[i].Args.outDir] =
               Holding({Entry("A.class", "class of A.java"), Entry("B.class", "class of B.java")})
        /\ ~fs[builds[j].Args.outDir].exists

====
